---- MODULE Spec2Model ----
(***************************************************************************)
(* Model of the chunked-analysis core of Video-Proofreader                 *)
(* (src/services/geminiService.ts): the timestamp codec, the window plan,  *)
(* parseResponse, mergeAnalysisResults and the runGeminiAnalysis loop.     *)
(*                                                                         *)
(* Text is a sequence of one-character strings, so that formatting and     *)
(* parsing are computed character by character as the code does.           *)
(* JavaScript numbers are integers plus the value NaN; `undefined` fields  *)
(* are the value Undefined.                                                *)
(***************************************************************************)
EXTENDS Integers, Sequences, FiniteSets, TLC

\* ------------------------------------------------------------------ bounds
\* longest raw issue list of one reply
MaxIssues == 2
\* most segment results handed to the merger in the merge specification
MaxResults == 2
\* largest duration and window size (seconds) of the planner specification
MaxDuration == 24
MaxChunk == 5
\* most points in the retention curve of one reply
MaxCurve == 22
\* greatest number of seconds formatted: the last second of a day
MaxSeconds == 86399
\* most polls of the file state that are answered with "not yet"
MaxPolls == 4

\* ------------------------------------------------------- JavaScript values
\* the value parseInt returns on text that does not start with a digit
NaN == -999999
\* a property that is absent from an object
Undefined == NaN - 1
\* a value that is present but whose typeof is not 'number' (a text, say)
NotNumeric == NaN - 2

IsNum(x) == x # NaN /\ x # Undefined

JsAdd(a, b) == IF a = NaN \/ b = NaN THEN NaN ELSE a + b
JsMul(a, b) == IF a = NaN \/ b = NaN THEN NaN ELSE a * b
\* a < b, false as soon as one side is NaN
JsLt(a, b) == a # NaN /\ b # NaN /\ a < b
JsGt(a, b) == a # NaN /\ b # NaN /\ a > b
\* Math.min
JsMin(a, b) == IF a = NaN \/ b = NaN THEN NaN ELSE IF a < b THEN a ELSE b
\* Math.floor(a / b) and a % b on non-negative integers, NaN otherwise
JsFloorDiv(a, b) == IF a = NaN THEN NaN ELSE a \div b
JsMod(a, b) == IF a = NaN THEN NaN ELSE a % b
\* Math.ceil(a / b), a > 0, b > 0
JsCeilDiv(a, b) == (a + b - 1) \div b

\* -------------------------------------------------------------------- text
DigitChars == <<"0", "1", "2", "3", "4", "5", "6", "7", "8", "9">>
IsDigit(c) == \E d \in 1..10 : DigitChars[d] = c
DigitVal(c) == (CHOOSE d \in 1..10 : DigitChars[d] = c) - 1

\* number of leading decimal digits of s
RECURSIVE LeadingDigits(_)
LeadingDigits(s) ==
  IF s = <<>> \/ ~IsDigit(Head(s)) THEN 0 ELSE 1 + LeadingDigits(Tail(s))

RECURSIVE DigitsValue(_, _)
DigitsValue(s, acc) ==
  IF s = <<>> THEN acc ELSE DigitsValue(Tail(s), acc * 10 + DigitVal(Head(s)))

\* parseInt(s, 10) on text without sign or white space: the value of the
\* leading digits, NaN when there is none
parseInt(s) ==
  LET n == LeadingDigits(s)
  IN  IF n = 0 THEN NaN ELSE DigitsValue(SubSeq(s, 1, n), 0)

\* s.replace(c, ''): the first occurrence of c removed
RECURSIVE replaceFirst(_, _)
replaceFirst(s, c) ==
  IF s = <<>> THEN <<>>
  ELSE IF Head(s) = c THEN Tail(s)
  ELSE <<Head(s)>> \o replaceFirst(Tail(s), c)

includes(s, c) == \E k \in 1..Len(s) : s[k] = c
endsWith(s, c) == Len(s) > 0 /\ s[Len(s)] = c

\* s.split(c): the pieces between the occurrences of c ("" gives <<"">>)
RECURSIVE split(_, _)
split(s, c) ==
  IF ~includes(s, c) THEN <<s>>
  ELSE LET k == CHOOSE j \in 1..Len(s) :
                  s[j] = c /\ \A l \in 1..(j - 1) : s[l] # c
       IN  <<SubSeq(s, 1, k - 1)>> \o split(SubSeq(s, k + 1, Len(s)), c)

\* n.toString() for n >= 0, and for NaN
RECURSIVE natToString(_)
natToString(n) ==
  IF n < 10 THEN <<DigitChars[n + 1]>>
  ELSE natToString(n \div 10) \o <<DigitChars[(n % 10) + 1]>>

toString(n) == IF n = NaN THEN <<"N", "a", "N">> ELSE natToString(n)

\* s.padStart(2, '0')
padStart2(s) == IF Len(s) < 2 THEN <<"0">> \o s ELSE s

\* ---------------------------------------------------------- timestamp codec
parseDurationSeconds(durationStr) ==
  IF durationStr = <<>> THEN 0 ELSE parseInt(replaceFirst(durationStr, "s"))

parseTimestampToSeconds(timeStr) ==
  IF timeStr = <<>> THEN 0
  ELSE IF endsWith(timeStr, "s") /\ ~includes(timeStr, ":")
       THEN parseInt(replaceFirst(timeStr, "s"))
  ELSE LET raw == split(timeStr, ":")
           parts == [k \in 1..Len(raw) |-> parseInt(raw[k])]
       IN  IF Len(parts) = 3
             THEN JsAdd(JsAdd(JsMul(parts[1], 3600), JsMul(parts[2], 60)), parts[3])
           ELSE IF Len(parts) = 2
             THEN JsAdd(JsMul(parts[1], 60), parts[2])
           ELSE IF parseInt(timeStr) = NaN THEN 0 ELSE parseInt(timeStr)

\* the components written without padStart
formatSecondsToTimestamp_NoPad(seconds) ==
  LET h == JsFloorDiv(seconds, 3600)
      m == JsFloorDiv(JsMod(seconds, 3600), 60)
      s == JsMod(seconds, 60)
  IN  IF JsGt(h, 0)
        THEN toString(h) \o <<":">> \o toString(m) \o <<":">> \o toString(s)
        ELSE toString(m) \o <<":">> \o toString(s)

formatSecondsToTimestamp(seconds) ==
  LET h == JsFloorDiv(seconds, 3600)
      m == JsFloorDiv(JsMod(seconds, 3600), 60)
      s == JsMod(seconds, 60)
  IN  IF JsGt(h, 0)
        THEN padStart2(toString(h)) \o <<":">> \o padStart2(toString(m))
               \o <<":">> \o padStart2(toString(s))
        ELSE padStart2(toString(m)) \o <<":">> \o padStart2(toString(s))

\* ------------------------------------------------------------- window plan
CHUNK_SIZE_MINUTES == 20

\* the end of a window not clamped to the duration
EndTime_NoClamp(k, c, d) == (k + 1) * c

\* totalChunks of runGeminiAnalysis, for a window size c
TotalChunks(d, c) == IF JsGt(d, 0) THEN JsCeilDiv(d, c) ELSE 1
\* startTime and endTime of loop iteration k (k = 0 is the first window)
StartTime(k, c) == k * c
EndTime(k, c, d) == JsMin((k + 1) * c, d)

\* ------------------------------------------------------------ the response
\* An issue of a reply (no id and no fixed flag: the tool schema has none)
Issue(ts, desc, typ, sev, fnd) ==
  [timestamp |-> ts, description |-> desc, type |-> typ, severity |-> sev,
   found |-> fnd, shouldBe |-> "undefined", impact |-> "undefined"]

\* marketing block none of whose properties is present
NoMarketing ==
  [overallScore |-> Undefined, hookScore |-> Undefined, hookFeedback |-> "undefined",
   ctaScore |-> Undefined, ctaFeedback |-> "undefined", retentionCurve |-> <<>>]

Args(score, issues, marketing) ==
  [score |-> score, issues |-> issues, marketing |-> marketing, platformFit |-> "fit"]

NoArgs == Args(Undefined, <<>>, NoMarketing)

TextPart == [isCall |-> FALSE, name |-> "", args |-> NoArgs]
CallPart(name, args) == [isCall |-> TRUE, name |-> name, args |-> args]
\* a response is the sequence of its candidates, a candidate that of its parts
NoCandidates == [candidates |-> <<>>]
TextResponse == [candidates |-> <<[parts |-> <<TextPart>>]>>]
CallResponse(name, args) == [candidates |-> <<[parts |-> <<TextPart, CallPart(name, args)>>]>>]

\* ----------------------------------------------------------- parseResponse
\* the correction applied to a timestamp on the window start as well
correctedIssues_Inclusive(issues, segmentStart) ==
  [k \in 1..Len(issues) |->
     LET seconds == parseTimestampToSeconds(issues[k].timestamp)
         shifted == IF segmentStart > 0 /\ (JsLt(seconds, segmentStart) \/ seconds = segmentStart)
                      THEN seconds + segmentStart ELSE seconds
     IN  [issues[k] EXCEPT !.timestamp = formatSecondsToTimestamp(shifted)]]

\* the issues of a reply with their timestamps corrected and reformatted
correctedIssues(issues, segmentStart) ==
  [k \in 1..Len(issues) |->
     LET seconds == parseTimestampToSeconds(issues[k].timestamp)
         shifted == IF segmentStart > 0 /\ JsLt(seconds, segmentStart)
                      THEN seconds + segmentStart ELSE seconds
     IN  [issues[k] EXCEPT !.timestamp = formatSecondsToTimestamp(shifted)]]

\* the same for the points of the retention curve
correctedRetention(curve, segmentStart) ==
  [k \in 1..Len(curve) |->
     LET seconds == parseTimestampToSeconds(curve[k].time)
         shifted == IF segmentStart > 0 /\ JsLt(seconds, segmentStart)
                      THEN seconds + segmentStart ELSE seconds
     IN  [curve[k] EXCEPT !.time = formatSecondsToTimestamp(shifted)]]

\* the first part of the first candidate that is a function call, or <<>>
FunctionCallPart(response) ==
  LET parts == response.candidates[1].parts
      calls == {k \in 1..Len(parts) : parts[k].isCall}
  IN  IF calls = {} THEN <<>>
      ELSE <<parts[CHOOSE k \in calls : \A l \in calls : k <= l]>>

EmptyResult ==
  [videoTitle |-> "", platform |-> "", score |-> Undefined, issues |-> <<>>,
   marketing |-> NoMarketing, platformFit |-> "undefined"]

Thrown(msg) == [ok |-> FALSE, error |-> msg, value |-> EmptyResult]
Returned(v) == [ok |-> TRUE, error |-> "", value |-> v]

\* parseResponse without the check of the function's name
parseResponse_AnyFunction(response, title, platform, segmentStart, segmentEnd) ==
  IF Len(response.candidates) = 0 THEN Thrown("No response from AI")
  ELSE LET fcp == FunctionCallPart(response)
       IN  IF fcp # <<>>
             THEN LET args == fcp[1].args
                  IN  Returned(
                        [videoTitle |-> title,
                         platform |-> platform,
                         score |-> args.score,
                         issues |-> correctedIssues(args.issues, segmentStart),
                         marketing |->
                           [args.marketing EXCEPT !.retentionCurve =
                              correctedRetention(args.marketing.retentionCurve, segmentStart)],
                         platformFit |-> args.platformFit])
             ELSE Thrown("AI returned text instead of structured data. Retrying recommended.")

\* parseResponse: the segment result, or the error it throws
parseResponse(response, title, platform, segmentStart, segmentEnd) ==
  IF Len(response.candidates) = 0 THEN Thrown("No response from AI")
  ELSE LET fcp == FunctionCallPart(response)
       IN  IF fcp # <<>> /\ fcp[1].name = "submit_video_analysis"
             THEN LET args == fcp[1].args
                  IN  Returned(
                        [videoTitle |-> title,
                         platform |-> platform,
                         score |-> args.score,
                         issues |-> correctedIssues(args.issues, segmentStart),
                         marketing |->
                           [args.marketing EXCEPT !.retentionCurve =
                              correctedRetention(args.marketing.retentionCurve, segmentStart)],
                         platformFit |-> args.platformFit])
             ELSE Thrown("AI returned text instead of structured data. Retrying recommended.")

\* ---------------------------------------------------- mergeAnalysisResults
\* results.flatMap(r => r.issues)
RECURSIVE allIssues(_)
allIssues(rs) == IF rs = <<>> THEN <<>> ELSE Head(rs).issues \o allIssues(Tail(rs))

RECURSIVE allPoints(_)
allPoints(rs) ==
  IF rs = <<>> THEN <<>> ELSE Head(rs).marketing.retentionCurve \o allPoints(Tail(rs))

\* the key under which the issue map stores an issue
IssueKey(item) == item.timestamp \o item.description
PointKey(item) == item.time

\* Array.from(new Map(entries).values()), keys[k] being the key of items[k]:
\* a key has its place where it is first set and its value from where it is
\* last set
MapValues_KeepFirst(items, keys) ==
  LET n == Len(items)
      firsts == {k \in 1..n : \A j \in 1..(k - 1) : keys[j] # keys[k]}
      place == [k \in firsts |-> Cardinality({f \in firsts : f < k}) + 1]
  IN  [p \in 1..Cardinality(firsts) |-> items[CHOOSE k \in firsts : place[k] = p]]

MapValues(items, keys) ==
  LET n == Len(items)
      firsts == {k \in 1..n : \A j \in 1..(k - 1) : keys[j] # keys[k]}
      place == [k \in firsts |-> Cardinality({f \in firsts : f < k}) + 1]
      lastOf == [k \in firsts |->
                   CHOOSE j \in k..n : keys[j] = keys[k] /\ \A l \in (j + 1)..n : keys[l] # keys[k]]
  IN  [p \in 1..Cardinality(firsts) |-> items[lastOf[CHOOSE k \in firsts : place[k] = p]]]

uniqueIssuesOf(items) == MapValues(items, [k \in 1..Len(items) |-> IssueKey(items[k])])

uniquePointsOf(items) == MapValues(items, [k \in 1..Len(items) |-> PointKey(items[k])])

\* Array.prototype.sort with the comparator a - b over the parsed seconds.
\* keys[k] is the parsed timestamp of items[k].  A difference that is NaN
\* counts as 0.  The sort is stable: an item comes after those with a smaller
\* key and after the earlier ones that compare equal to it.  When the
\* comparator is not a consistent ordering (a NaN key beside two different
\* numbers) the order of the result is implementation-defined: any
\* arrangement of the items.
StableSort(items, keys) ==
  LET n == Len(items)
      before(j, k) == JsLt(keys[j], keys[k]) \/ (~JsGt(keys[j], keys[k]) /\ j < k)
      place == [k \in 1..n |-> Cardinality({j \in 1..n : j # k /\ before(j, k)}) + 1]
  IN  [p \in 1..n |-> items[CHOOSE k \in 1..n : place[k] = p]]

InconsistentKeys(keys) ==
  /\ \E k \in 1..Len(keys) : keys[k] = NaN
  /\ \E k, l \in 1..Len(keys) : keys[k] # NaN /\ keys[l] # NaN /\ keys[k] # keys[l]

SortOutcomes(items, keys) ==
  IF InconsistentKeys(keys)
    THEN {[k \in 1..Len(items) |-> items[p[k]]] : p \in Permutations(1..Len(items))}
    ELSE {StableSort(items, keys)}

sortedIssues(items) ==
  SortOutcomes(items, [k \in 1..Len(items) |-> parseTimestampToSeconds(items[k].timestamp)])

sortedPoints(items) ==
  SortOutcomes(items, [k \in 1..Len(items) |-> parseTimestampToSeconds(items[k].time)])

\* values.filter(s => typeof s === 'number')
RECURSIVE validNumbers(_)
validNumbers(values) ==
  IF values = <<>> THEN <<>>
  ELSE IF Head(values) \notin {Undefined, NotNumeric}
    THEN <<Head(values)>> \o validNumbers(Tail(values))
  ELSE validNumbers(Tail(values))

RECURSIVE sumOf(_)
sumOf(values) == IF values = <<>> THEN 0 ELSE JsAdd(Head(values), sumOf(Tail(values)))

\* the quotient cut down to the integer below it
average_Floor(values) ==
  LET total == sumOf(values)
  IN  IF Len(values) = 0 \/ total = NaN THEN NaN
      ELSE total \div Len(values)

\* Math.round(sum / length): NaN for an empty list, halves rounded up
average(values) ==
  LET total == sumOf(values)
  IN  IF Len(values) = 0 \/ total = NaN THEN NaN
      ELSE (2 * total + Len(values)) \div (2 * Len(values))

CURVE_LIMIT == 20

\* the step taken as the quotient rounded down
limitCurve_FloorStep(curve) ==
  IF Len(curve) > CURVE_LIMIT
    THEN LET step == Len(curve) \div CURVE_LIMIT
             kept == {k \in 1..Len(curve) : (k - 1) % step = 0}
         IN  [j \in 1..Cardinality(kept) |-> curve[(j - 1) * step + 1]]
    ELSE curve

\* the curve thinned to every step-th point when it has more than 20
limitCurve(curve) ==
  IF Len(curve) > CURVE_LIMIT
    THEN LET step == JsCeilDiv(Len(curve), CURVE_LIMIT)
             kept == {k \in 1..Len(curve) : (k - 1) % step = 0}
         IN  [j \in 1..Cardinality(kept) |-> curve[(j - 1) * step + 1]]
    ELSE curve

\* x || fallback for a number (0, NaN and undefined are falsy)
NumberOr(x, fallback) == IF x = Undefined \/ x = NaN \/ x = 0 THEN fallback ELSE x
\* x ?? fallback for text: only undefined gives the fallback
TextOr_Nullish(x, fallback) == IF x = "undefined" THEN fallback ELSE x
\* x || fallback for text ("" and undefined are falsy)
TextOr(x, fallback) == IF x = "undefined" \/ x = "" THEN fallback ELSE x

\* { ...result, duration }
WithDuration(result, duration) ==
  [f \in DOMAIN result \cup {"duration"} |->
     IF f = "duration" THEN duration ELSE result[f]]

\* mergeAnalysisResults past its first line: the reports it can return (more
\* than one only where a sort is implementation-defined)
MergeSeveral(results, duration) ==
    LET first == results[1]
        last == results[Len(results)]
        scores == validNumbers([k \in 1..Len(results) |-> results[k].score])
        mscores == validNumbers([k \in 1..Len(results) |-> results[k].marketing.overallScore])
    IN  {[videoTitle |-> first.videoTitle,
          platform |-> first.platform,
          score |-> average(scores),
          duration |-> duration,
          issues |-> issues,
          marketing |->
            [overallScore |-> average(mscores),
             hookScore |-> NumberOr(first.marketing.hookScore, 0),
             hookFeedback |-> TextOr(first.marketing.hookFeedback, "No hook data found"),
             ctaScore |-> NumberOr(last.marketing.ctaScore, 0),
             ctaFeedback |-> TextOr(last.marketing.ctaFeedback, "No CTA data found"),
             retentionCurve |-> limitCurve(uniquePointsOf(curve))],
          platformFit |-> first.platformFit] :
           issues \in sortedIssues(uniqueIssuesOf(allIssues(results))),
           curve \in sortedPoints(allPoints(results))}

\* every list merged field by field, a single result as well
mergeAnalysisResults_NoFastPath(results, duration) == MergeSeveral(results, duration)

\* mergeAnalysisResults(results, duration)
mergeAnalysisResults(results, duration) ==
  IF Len(results) = 1 THEN {WithDuration(results[1], duration)}
  ELSE MergeSeveral(results, duration)

\* =================================================================== state
VARIABLES
  pc,               \* where the modelled call stands
  apiKey,           \* whether process.env.API_KEY is set
  durationStr,      \* the duration text handed to runGeminiAnalysis
  durationSeconds,  \* its parsed value
  chunkSeconds,     \* the window size in seconds
  totalChunks,      \* number of planned windows, 0 before planning
  i,                \* the loop index of runGeminiAnalysis
  results,          \* the accumulator of segment results
  log,              \* status callbacks, requests and their resolutions, in order
  report,           \* the returned report, as a sequence of at most one
  error,            \* the message of the thrown error, "" when none
  replies,          \* what each generateContent call so far came to
  plan,             \* the windows visited so far (planner specification)
  response,         \* the reply handed to parseResponse (parse specification)
  segmentStart,     \* its segmentStart argument
  parsed,           \* what parseResponse gave
  upload,           \* the call of uploadFileToGemini (upload specification)
  codec,            \* a timestamp being formatted and parsed (codec specification)
  app               \* the state of the App component and its runs (app specification)

vars == <<pc, apiKey, durationStr, durationSeconds, chunkSeconds, totalChunks, i,
          results, log, report, error, replies, plan, response, segmentStart, parsed,
          upload, codec, app>>

runVars == <<apiKey, durationStr, durationSeconds, chunkSeconds, totalChunks, i,
             results, log, report, error, replies>>
parseVars == <<response, segmentStart, parsed>>
extraVars == <<upload, codec, app>>

\* uploadFileToGemini not called, and no timestamp in hand
NoUpload ==
  [pc |-> "idle", callback |-> "function", log |-> <<>>, polls |-> 0, clock |-> 0,
   result |-> <<>>, error |-> ""]
NoCodec == [pc |-> "idle", given |-> "", seconds |-> 0, text |-> <<>>, value |-> 0]

\* the App component as useState initialises it (App.tsx:278-300), no run
\* started; null and the empty text are both "".  onStatusUpdate is what the
\* services receive as their status callback, resultsFile the file the
\* installed report was computed from.
NoApp ==
  [step |-> "login", userName |-> "", apiKey |-> "", file |-> "", videoTitle |-> "",
   results |-> <<>>, resultsFile |-> "", error |-> "", isAiProcessing |-> FALSE,
   processedVideo |-> FALSE, onStatusUpdate |-> "function", runs |-> <<>>]

\* ------------------------------------------------------------------ inputs
Txt_abc == <<"a", "b", "c">>
Txt_0s == <<"0", "s">>
Txt_1200s == <<"1", "2", "0", "0", "s">>
Txt_2400s == <<"2", "4", "0", "0", "s">>
Txt_2500s == <<"2", "5", "0", "0", "s">>
Txt_3700s == <<"3", "7", "0", "0", "s">>
Txt_00_10 == <<"0", "0", ":", "1", "0">>
Txt_00_30 == <<"0", "0", ":", "3", "0">>
Txt_01_00 == <<"0", "1", ":", "0", "0">>
Txt_19_59 == <<"1", "9", ":", "5", "9">>
Txt_20_00 == <<"2", "0", ":", "0", "0">>
Txt_20_30 == <<"2", "0", ":", "3", "0">>
Txt_25_00 == <<"2", "5", ":", "0", "0">>
Txt_01_00_05 == <<"0", "1", ":", "0", "0", ":", "0", "5">>
Txt_90s == <<"9", "0", "s">>
Txt_a_b == <<"a", ":", "b">>
Txt_x == <<"x">>
Txt_y == <<"y">>
Txt_05x == <<":", "0", "5", "x">>

\* duration texts of a run: absent, unparseable, zero, then one, two and
\* three windows
DurationStrs == {<<>>, Txt_abc, Txt_0s, Txt_1200s, Txt_2400s, Txt_2500s}

\* every list of at most MaxIssues items of a pool
ListsOf(pool) == UNION {[1..n -> pool] : n \in 0..MaxIssues}

Marketing(overall, hook, hookText, cta, ctaText, curve) ==
  [overallScore |-> overall, hookScore |-> hook, hookFeedback |-> hookText,
   ctaScore |-> cta, ctaFeedback |-> ctaText, retentionCurve |-> curve]

Point(time, value) == [time |-> time, value |-> value, label |-> "undefined"]

\* The timestamps of the merge inputs all parse to numbers, so every sort of
\* the merger is decided by its comparator.
\* issues a reply of a run may carry: the later one first, so that a reply
\* can be out of time order, and twice the same
RunIssuePool ==
  {Issue(Txt_00_30, Txt_x, "spelling", "minor", "teh"),
   Issue(Txt_00_10, Txt_y, "factual", "major", "F=mv")}

RunMarketing == Marketing(70, 8, "good hook", 6, "weak cta", <<Point(Txt_00_10, 90)>>)

\* the marketing block of the reply for window k: every window's reply has
\* hook and CTA values of its own
HookFeedbacks == <<"hook of window 0", "hook of window 1", "hook of window 2">>
CtaFeedbacks == <<"cta of window 0", "cta of window 1", "cta of window 2">>
FeedbackOf(texts, k) == IF k + 1 \in DOMAIN texts THEN texts[k + 1] ELSE "of a later window"
RunMarketingOf(k) ==
  [RunMarketing EXCEPT !.hookScore = 8 - k, !.hookFeedback = FeedbackOf(HookFeedbacks, k),
                       !.ctaScore = 6 - k, !.ctaFeedback = FeedbackOf(CtaFeedbacks, k)]

\* the arguments of a call of another function: an analysis all the same
StrayArgs == Args(40, <<Issue(Txt_00_10, Txt_y, "factual", "major", "stray")>>, RunMarketing)

\* what the generateContent call for window k can come to: it throws, or it returns a
\* response without candidates, with text only, with another function's
\* call, or with the call of submit_video_analysis
RunOutcomes(k) ==
  {[rejected |-> TRUE, response |-> NoCandidates]}
  \cup {[rejected |-> FALSE, response |-> r] :
          r \in {NoCandidates, TextResponse, CallResponse("other_function", StrayArgs)}}
  \cup {[rejected |-> FALSE,
         response |-> CallResponse("submit_video_analysis", Args(80, l, RunMarketingOf(k)))] :
          l \in ListsOf(RunIssuePool)}

\* ---------------------------------------------------------- log of a run
\* The run is given a status callback (onStatusUpdate is a function): the log
\* holds its calls, the generateContent calls and how each of them settled.
Event(kind, what, idx, seg, total, startStr, endStr, hook, cta) ==
  [kind |-> kind, what |-> what, i |-> idx, seg |-> seg, total |-> total,
   startStr |-> startStr, endStr |-> endStr, hook |-> hook, cta |-> cta]

\* onStatusUpdate(`Video is long. Splitting into ${totalChunks} segments ...`)
SplittingStatus(n) == Event("status", "splitting", -1, 0, n, <<>>, <<>>, FALSE, FALSE)
\* the progress status of loop iteration k
ProgressStatus(k, n, c, d) ==
  IF n > 1
    THEN Event("status", "analyzing segment", k, k + 1, n,
               formatSecondsToTimestamp(StartTime(k, c)),
               formatSecondsToTimestamp(EndTime(k, c, d)), FALSE, FALSE)
    ELSE Event("status", "analyzing whole video", k, 0, n, <<>>, <<>>, FALSE, FALSE)
\* the segment instruction chosen as soon as there is one window
Request_AlwaysChunked(k, n, c, d) ==
  Event("request", "segment only", k, k + 1, n,
        formatSecondsToTimestamp(StartTime(k, c)),
        formatSecondsToTimestamp(EndTime(k, c, d)), k = 0, k = n - 1)

\* every window asked for the hook and for the CTA
Request_HookAndCtaEverywhere(k, n, c, d) ==
  IF n > 1
    THEN Event("request", "segment only", k, k + 1, n,
               formatSecondsToTimestamp(StartTime(k, c)),
               formatSecondsToTimestamp(EndTime(k, c, d)), TRUE, TRUE)
    ELSE Event("request", "whole video", k, 0, n, <<>>, <<>>, TRUE, TRUE)

\* the generateContent call of loop iteration k: its time instruction and
\* whether it asks for the hook and for the CTA
Request(k, n, c, d) ==
  IF n > 1
    THEN Event("request", "segment only", k, k + 1, n,
               formatSecondsToTimestamp(StartTime(k, c)),
               formatSecondsToTimestamp(EndTime(k, c, d)), k = 0, k = n - 1)
    ELSE Event("request", "whole video", k, 0, n, <<>>, <<>>, k = 0, k = n - 1)
\* the call of window k has settled: with a segment result, or with the error
\* the catch clause hands to console.error
Resolved(k, got) ==
  Event("resolved", IF got.ok THEN "result" ELSE got.error, k, k + 1, 0, <<>>, <<>>,
        FALSE, FALSE)
FailedStatus(k) == Event("status", "segment failed", k, k + 1, 0, <<>>, <<>>, FALSE, FALSE)
MergingStatus == Event("status", "merging", -1, 0, 0, <<>>, <<>>, FALSE, FALSE)

NO_RESULTS == "Analysis failed to produce any results."

\* ------------------------------------------------------- runGeminiAnalysis
RunInit ==
  /\ pc = "idle"
  /\ apiKey \in BOOLEAN
  /\ durationStr \in DurationStrs
  /\ durationSeconds = 0
  /\ chunkSeconds = CHUNK_SIZE_MINUTES * 60
  /\ totalChunks = 0
  /\ i = 0
  /\ results = <<>>
  /\ log = <<>>
  /\ report = <<>>
  /\ error = ""
  /\ replies = <<>>
  /\ plan = <<>>
  /\ response = NoCandidates
  /\ segmentStart = 0
  /\ parsed = Thrown("")
  /\ upload = NoUpload
  /\ codec = NoCodec
  /\ app = NoApp

\* the request issued before its progress status
Announce_RequestFirst(k, n, c, d) == <<Request(k, n, c, d), ProgressStatus(k, n, c, d)>>

\* the call of a window issued a second time
Announce_RequestTwice(k, n, c, d) ==
  <<ProgressStatus(k, n, c, d), Request(k, n, c, d), Request(k, n, c, d)>>

\* the progress status of window k, then its generateContent call
Announce(k, n, c, d) == <<ProgressStatus(k, n, c, d), Request(k, n, c, d)>>

\* the try block of loop iteration k on what the call came to: the segment
\* result, or the error the catch clause receives
Attempt(outcome, k, c, d) ==
  IF outcome.rejected THEN Thrown("generateContent failed")
  ELSE parseResponse(outcome.response, "title", "platform",
                     StartTime(k, c), EndTime(k, c, d))

\* what the loop body logs once the call has settled: the catch clause
\* reports the failed segment
Settled(k, got) ==
  <<Resolved(k, got)>> \o (IF got.ok THEN <<>> ELSE <<FailedStatus(k)>>)

\* the loop left at the first failed window
ContinueAfter_StopOnFailure(k, n, ok) == k + 1 < n /\ ok
\* the loop left at the first segment result
ContinueAfter_StopOnSuccess(k, n, ok) == k + 1 < n /\ ~ok

\* the loop condition after iteration k of n: a failure does not end the loop
ContinueAfter(k, n, ok) == k + 1 < n

\* the empty accumulator merged into a report without issues
AfterLoop_NoEmptyCheck(rs, duration) ==
  [pc |-> "done", error |-> "", status |-> <<MergingStatus>>,
   reports |-> IF Len(rs) = 0 THEN {<<WithDuration(EmptyResult, duration)>>}
               ELSE {<<m>> : m \in mergeAnalysisResults(rs, duration)}]

\* the code after the loop stuck in the merge: neither a report nor a throw
AfterLoop_NeverReturns(rs, duration) ==
  [pc |-> "merging", error |-> "", status |-> <<MergingStatus>>, reports |-> {<<>>}]

\* the code after the loop: the throw on an empty accumulator, else the
\* merging status and the merged report
AfterLoop(rs, duration) ==
  IF Len(rs) = 0
    THEN [pc |-> "failed", error |-> NO_RESULTS, status |-> <<>>, reports |-> {<<>>}]
    ELSE [pc |-> "done", error |-> "", status |-> <<MergingStatus>>,
          reports |-> {<<m>> : m \in mergeAnalysisResults(rs, duration)}]

\* the call, up to its first await: the key check, the plan, the splitting
\* status, then the progress status and the request of window 0
Start ==
  /\ pc = "idle"
  /\ IF ~apiKey
       THEN /\ pc' = "failed"
            /\ error' = "API Key missing"
            /\ UNCHANGED <<durationSeconds, totalChunks, log>>
       ELSE LET d == parseDurationSeconds(durationStr)
                n == TotalChunks(d, chunkSeconds)
            IN  /\ durationSeconds' = d
                /\ totalChunks' = n
                /\ log' = (IF n > 1 THEN <<SplittingStatus(n)>> ELSE <<>>)
                            \o Announce(0, n, chunkSeconds, d)
                /\ pc' = "awaiting"
                /\ error' = ""
  /\ UNCHANGED <<apiKey, durationStr, chunkSeconds, i, results, report, replies, plan>>
  /\ UNCHANGED parseVars
  /\ UNCHANGED extraVars

\* the pending generateContent call settles: the reply is parsed and pushed,
\* or the failure is caught and reported; then the next window is announced
\* and requested, or the loop is over and the run throws or merges
Resolve(outcome) ==
  /\ pc = "awaiting"
  /\ LET got == Attempt(outcome, i, chunkSeconds, durationSeconds)
         results1 == IF got.ok THEN Append(results, got.value) ELSE results
         log1 == log \o Settled(i, got)
     IN  /\ i' = i + 1
         /\ replies' = Append(replies, outcome)
         /\ results' = results1
         /\ IF ContinueAfter(i, totalChunks, got.ok)
              THEN /\ log' = log1 \o Announce(i + 1, totalChunks, chunkSeconds, durationSeconds)
                   /\ UNCHANGED <<pc, report, error>>
              ELSE LET end == AfterLoop(results1, durationStr)
                   IN  /\ log' = log1 \o end.status
                       /\ pc' = end.pc
                       /\ error' = end.error
                       /\ report' \in end.reports
  /\ UNCHANGED <<apiKey, durationStr, durationSeconds, chunkSeconds, totalChunks, plan>>
  /\ UNCHANGED parseVars
  /\ UNCHANGED extraVars

Init == RunInit

Next ==
  \/ Start
  \/ \E outcome \in RunOutcomes(i) : Resolve(outcome)

Spec == Init /\ [][Next]_vars

\* ============================================ properties of runGeminiAnalysis
\* the run has got past the key check and made its plan
Planned == pc # "idle" /\ apiKey
Windows == 0..(totalChunks - 1)
Positions(kind) == {p \in 1..Len(log) : log[p].kind = kind}
RequestsOf(w) == {p \in Positions("request") : log[p].i = w}
ResolvedOf(w) == {p \in Positions("resolved") : log[p].i = w}
FailedWindows == {w \in Windows : \E p \in ResolvedOf(w) : log[p].what # "result"}
SucceededWindows == {w \in Windows : \E p \in ResolvedOf(w) : log[p].what = "result"}
StatusesOf(what) == {p \in Positions("status") : log[p].what = what}
Ended == pc \in {"done", "failed"}

\* the parsed seconds of a list of issues, in list order
IssueSeconds(issues) ==
  [k \in 1..Len(issues) |-> parseTimestampToSeconds(issues[k].timestamp)]
TimeOrdered(issues) ==
  \A p, q \in 1..Len(issues) :
    p < q => /\ IsNum(IssueSeconds(issues)[p])
             /\ IsNum(IssueSeconds(issues)[q])
             /\ IssueSeconds(issues)[p] <= IssueSeconds(issues)[q]
NoDuplicatePairs(issues) ==
  \A p, q \in 1..Len(issues) :
    (/\ issues[p].timestamp = issues[q].timestamp
     /\ issues[p].description = issues[q].description) => p = q

\* C1: when the analysis of every window has failed (the call threw, the
\* response had no candidates, or it held text instead of the function call),
\* the run has ended in the fatal failure "Analysis failed to produce any
\* results." and has returned no report.
C1_AllFailedIsFatal ==
  (Planned /\ FailedWindows = Windows) =>
    (pc = "failed" /\ error = NO_RESULTS /\ report = <<>>)

\* a three-window run whose windows failed in the three ways
C1_Witness ==
  /\ Planned /\ totalChunks = 3 /\ FailedWindows = Windows
  /\ \E p \in ResolvedOf(0) : log[p].what = "generateContent failed"
  /\ \E p \in ResolvedOf(1) : log[p].what = "No response from AI"
  /\ \E p \in ResolvedOf(2) :
       log[p].what = "AI returned text instead of structured data. Retrying recommended."
  /\ pc = "failed"

\* C2: a failed window is absorbed.  Once a planned run has ended, every one
\* of its N windows has been requested, the "segment failed" statuses name
\* exactly the failed windows (by index + 1), and a report has been returned
\* if and only if some window succeeded.
C2_FailureAbsorbed ==
  (Planned /\ Ended) =>
    /\ \A w \in Windows : RequestsOf(w) # {}
    /\ \A w \in FailedWindows :
         \E p \in StatusesOf("segment failed") : log[p].seg = w + 1
    /\ \A p \in StatusesOf("segment failed") : log[p].seg - 1 \in FailedWindows
    /\ (report # <<>>) <=> (SucceededWindows # {})

\* a three-window run whose first and last windows failed and that returned
\* a report
C2_Witness ==
  /\ Planned /\ pc = "done" /\ totalChunks = 3
  /\ FailedWindows = {0, 2} /\ report # <<>>

\* C3: the requests of a run are issued one at a time in increasing window
\* index: the progress status of a window comes right before its request, a
\* request is issued only when every earlier request has settled, and the
\* status callbacks that name a window follow the window order.
C3_Sequential ==
  /\ \A p, q \in Positions("request") : p < q => log[p].i < log[q].i
  /\ \A p \in Positions("request") :
       /\ p > 1
       /\ log[p - 1].kind = "status"
       /\ log[p - 1].what \in {"analyzing segment", "analyzing whole video"}
       /\ log[p - 1].i = log[p].i
       /\ \A w \in 0..(log[p].i - 1) : \E r \in ResolvedOf(w) : r < p
  /\ \A p \in Positions("resolved") : \E q \in RequestsOf(log[p].i) : q < p
  /\ \A p, q \in Positions("status") :
       (p < q /\ log[p].i >= 0 /\ log[q].i >= 0) => log[p].i <= log[q].i
  /\ Cardinality(Positions("request")) - Cardinality(Positions("resolved")) \in {0, 1}

\* the third request of a run is out after a failure and a success
C3_Witness ==
  /\ RequestsOf(2) # {}
  /\ FailedWindows = {0}
  /\ SucceededWindows = {1}

\* C4: the run goes through planning, the windows, merging, done.  The
\* merging status and the report exist only once every window has settled,
\* the merging status is the last event and comes with the report, a
\* splitting status can only be the first event, and the run has failed only
\* with no segment result at all.
C4_Phases ==
  /\ \A p \in StatusesOf("merging") :
       /\ \A w \in Windows : \E r \in ResolvedOf(w) : r < p
       /\ p = Len(log)
       /\ pc = "done"
  /\ (report # <<>>) => (pc = "done" /\ \A w \in Windows : ResolvedOf(w) # {})
  /\ (pc = "done") => (report # <<>> /\ StatusesOf("merging") # {})
  /\ \A p \in StatusesOf("splitting") : p = 1
  /\ (pc = "awaiting") => (Planned /\ i \in Windows /\ ResolvedOf(i) = {})
  /\ (pc = "failed") => (results = <<>> /\ SucceededWindows = {})

\* a three-window run that is done although its middle window failed
C4_Witness ==
  /\ pc = "done" /\ totalChunks = 3 /\ FailedWindows = {1}
  /\ StatusesOf("merging") # {}

\* the arguments of the reply of window w (it succeeded)
ReplyArgs(w) == FunctionCallPart(replies[w + 1].response)[1].args

\* C6: a duration that is zero, absent or unparseable gives a plan of one
\* window from 0: one request at most, with the whole-video instruction and
\* no segment bounds, no splitting status, and a segment result whose
\* timestamps all denote the seconds of the reply's.
C6_UnknownDuration ==
  (Planned /\ ~JsGt(durationSeconds, 0)) =>
    /\ totalChunks = 1
    /\ Cardinality(Positions("request")) = 1
    /\ \A p \in Positions("request") :
         /\ log[p].i = 0
         /\ StartTime(log[p].i, chunkSeconds) = 0
         /\ log[p].what = "whole video"
         /\ log[p].startStr = <<>> /\ log[p].endStr = <<>>
    /\ StatusesOf("splitting") = {}
    /\ \A r \in 1..Len(results) :
         /\ IssueSeconds(results[r].issues) = IssueSeconds(ReplyArgs(0).issues)
         /\ [k \in 1..Len(results[r].marketing.retentionCurve) |->
               parseTimestampToSeconds(results[r].marketing.retentionCurve[k].time)]
            = [k \in 1..Len(ReplyArgs(0).marketing.retentionCurve) |->
                 parseTimestampToSeconds(ReplyArgs(0).marketing.retentionCurve[k].time)]

\* the run on an unparseable duration is done, with issues in its report
C6_Witness ==
  /\ durationStr = Txt_abc /\ durationSeconds = NaN /\ pc = "done"
  /\ Len(results) = 1 /\ Len(results[1].issues) = 2

\* C10: every returned report has its issues in time order and without two
\* issues of the same timestamp and description.
C10_ReportOrderedUnique ==
  (report # <<>>) =>
    (TimeOrdered(report[1].issues) /\ NoDuplicatePairs(report[1].issues))

\* C13: in a report of a run over several windows the hook score and
\* feedback are those of the reply for window 0 and the CTA score and
\* feedback those of the reply for the last window, whichever windows
\* failed (a window without a result leaves the fallback values).
C13_HookAndCtaByWindow ==
  (pc = "done" /\ totalChunks > 1) =>
    LET m == report[1].marketing
        lastWindow == totalChunks - 1
    IN  /\ IF 0 \in SucceededWindows
             THEN /\ m.hookScore = ReplyArgs(0).marketing.hookScore
                  /\ m.hookFeedback = ReplyArgs(0).marketing.hookFeedback
             ELSE m.hookScore = 0 /\ m.hookFeedback = "No hook data found"
        /\ IF lastWindow \in SucceededWindows
             THEN /\ m.ctaScore = ReplyArgs(lastWindow).marketing.ctaScore
                  /\ m.ctaFeedback = ReplyArgs(lastWindow).marketing.ctaFeedback
             ELSE m.ctaScore = 0 /\ m.ctaFeedback = "No CTA data found"

\* what a reply is, read off the response alone
HasSubmitCall(o) ==
  /\ ~o.rejected
  /\ Len(o.response.candidates) > 0
  /\ \E k \in 1..Len(o.response.candidates[1].parts) :
       LET part == o.response.candidates[1].parts[k]
       IN  part.isCall /\ part.name = "submit_video_analysis"
IsUnstructured(o) ==
  /\ ~o.rejected
  /\ \/ Len(o.response.candidates) = 0
     \/ \A k \in 1..Len(o.response.candidates[1].parts) :
          LET part == o.response.candidates[1].parts[k]
          IN  ~part.isCall \/ part.name # "submit_video_analysis"
\* the window whose result is the r-th of the accumulator
WindowOfResult(r) ==
  CHOOSE w \in SucceededWindows : Cardinality({v \in SucceededWindows : v < w}) = r - 1

\* C19: a segment result is appended only for a reply that holds a function
\* call named submit_video_analysis; a reply without candidates, with text
\* only or with a call of another name is reported as a failed segment,
\* appends nothing, and nothing of it is in the report.
C19_OnlySubmitCallsCount ==
  Planned =>
    /\ Len(results) = Cardinality(SucceededWindows)
    /\ \A w \in SucceededWindows : HasSubmitCall(replies[w + 1])
    /\ \A r \in 1..Len(results) :
         LET args == ReplyArgs(WindowOfResult(r))
         IN  /\ results[r].score = args.score
             /\ Len(results[r].issues) = Len(args.issues)
             /\ \A k \in 1..Len(args.issues) : results[r].issues[k].found = args.issues[k].found
    /\ \A w \in 0..(Len(replies) - 1) :
         IsUnstructured(replies[w + 1]) =>
           /\ w \in FailedWindows /\ w \notin SucceededWindows
           /\ \E p \in StatusesOf("segment failed") : log[p].seg = w + 1
    /\ pc = "done" =>
         \A j \in 1..Len(report[1].issues) :
           \E w \in SucceededWindows :
             \E k \in 1..Len(ReplyArgs(w).issues) :
               ReplyArgs(w).issues[k].found = report[1].issues[j].found

\* of three windows the first replied with text, the second with a call of
\* another function and the third with the call: one result, its issue alone
\* in the report
C19_Witness ==
  /\ pc = "done" /\ totalChunks = 3
  /\ replies[1].response = TextResponse
  /\ replies[2].response = CallResponse("other_function", StrayArgs)
  /\ HasSubmitCall(replies[3])
  /\ Len(results) = 1
  /\ Len(report[1].issues) = 1
  /\ report[1].issues[1].found = "teh"
  /\ report[1].score = 80

\* ========================================================== the window plan
\* The plan of runGeminiAnalysis on its own: the window count, then the
\* bounds of each loop iteration, for durations and window sizes drawn from
\* small ranges and for the durations of the examples with the real size.
PlanInputs ==
  ((0..MaxDuration) \X (1..MaxChunk))
  \cup ({1200, 2400, 2500, 3700} \X {CHUNK_SIZE_MINUTES * 60})

PlanInit ==
  /\ pc = "counting"
  /\ \E input \in PlanInputs :
       /\ durationSeconds = input[1]
       /\ chunkSeconds = input[2]
  /\ apiKey = TRUE
  /\ durationStr = <<>>
  /\ totalChunks = 0
  /\ i = 0
  /\ results = <<>>
  /\ log = <<>>
  /\ report = <<>>
  /\ error = ""
  /\ replies = <<>>
  /\ plan = <<>>
  /\ response = NoCandidates
  /\ segmentStart = 0
  /\ parsed = Thrown("")
  /\ upload = NoUpload
  /\ codec = NoCodec
  /\ app = NoApp

\* const totalChunks = ...
PlanCount ==
  /\ pc = "counting"
  /\ totalChunks' = TotalChunks(durationSeconds, chunkSeconds)
  /\ pc' = "windows"
  /\ UNCHANGED <<apiKey, durationStr, durationSeconds, chunkSeconds, i, results, log,
                 report, error, replies, plan>>
  /\ UNCHANGED parseVars
  /\ UNCHANGED extraVars

\* one loop iteration: startTime and endTime of window i
PlanWindow ==
  /\ pc = "windows"
  /\ i < totalChunks
  /\ plan' = Append(plan, [start |-> StartTime(i, chunkSeconds),
                           end |-> EndTime(i, chunkSeconds, durationSeconds)])
  /\ i' = i + 1
  /\ pc' = IF i + 1 < totalChunks THEN "windows" ELSE "planned"
  /\ UNCHANGED <<apiKey, durationStr, durationSeconds, chunkSeconds, totalChunks,
                 results, log, report, error, replies>>
  /\ UNCHANGED parseVars
  /\ UNCHANGED extraVars

PlanNext == PlanCount \/ PlanWindow

PlanSpec == PlanInit /\ [][PlanNext]_vars

\* C5: for a duration > 0 and a window size W the plan has ceil(duration / W)
\* windows, window k is [k*W, min((k+1)*W, duration)), every window has
\* start < end, each window begins where the one before ends, the first
\* begins at 0 and the last ends at the duration.
C5_PlanCoversDuration ==
  (pc = "planned" /\ durationSeconds > 0) =>
    /\ Len(plan) * chunkSeconds >= durationSeconds
    /\ (Len(plan) - 1) * chunkSeconds < durationSeconds
    /\ \A k \in 1..Len(plan) :
         /\ plan[k].start = (k - 1) * chunkSeconds
         /\ plan[k].end <= k * chunkSeconds
         /\ plan[k].end <= durationSeconds
         /\ plan[k].end \in {k * chunkSeconds, durationSeconds}
         /\ plan[k].start < plan[k].end
    /\ plan[1].start = 0
    /\ \A k \in 1..(Len(plan) - 1) : plan[k].end = plan[k + 1].start
    /\ plan[Len(plan)].end = durationSeconds

\* the plan of 2500 seconds in windows of 1200
C5_Witness ==
  /\ pc = "planned" /\ durationSeconds = 2500 /\ chunkSeconds = 1200
  /\ plan = <<[start |-> 0, end |-> 1200], [start |-> 1200, end |-> 2400],
              [start |-> 2400, end |-> 2500]>>

\* ============================================================ parseResponse
\* parseResponse on its own: a reply and the start of its window are drawn,
\* then parsed.  The raw timestamps are relative and absolute ones, one on
\* the window boundary, the hour and the raw-seconds forms, and malformed
\* text.
RawIssueTimes ==
  {Txt_00_30, Txt_19_59, Txt_20_00, Txt_25_00, Txt_01_00_05, Txt_90s, Txt_abc,
   Txt_a_b, <<>>}
RawPointTimes == {Txt_00_10, Txt_20_00, Txt_a_b}

ParseIssuePool == {Issue(t, Txt_x, "spelling", "minor", "teh") : t \in RawIssueTimes}
ParsePointPool == {Point(t, 50) : t \in RawPointTimes}

ParseResponses ==
  {NoCandidates, TextResponse, CallResponse("other_function", NoArgs)}
  \cup {CallResponse("submit_video_analysis",
                     Args(80, l, Marketing(70, 8, "good hook", 6, "weak cta", c))) :
          l \in ListsOf(ParseIssuePool), c \in ListsOf(ParsePointPool)}

\* the starts of the first three windows
ParseStarts == {StartTime(k, CHUNK_SIZE_MINUTES * 60) : k \in 0..2}

ParseInit ==
  /\ pc = "parsing"
  /\ response \in ParseResponses
  /\ segmentStart \in ParseStarts
  /\ parsed = Thrown("")
  /\ upload = NoUpload
  /\ codec = NoCodec
  /\ app = NoApp
  /\ apiKey = TRUE
  /\ durationStr = <<>>
  /\ durationSeconds = 0
  /\ chunkSeconds = CHUNK_SIZE_MINUTES * 60
  /\ totalChunks = 0
  /\ i = 0
  /\ results = <<>>
  /\ log = <<>>
  /\ report = <<>>
  /\ error = ""
  /\ replies = <<>>
  /\ plan = <<>>

ParseStep ==
  /\ pc = "parsing"
  /\ parsed' = parseResponse(response, "title", "platform", segmentStart,
                             segmentStart + chunkSeconds)
  /\ pc' = "parsed"
  /\ UNCHANGED <<response, segmentStart, plan>>
  /\ UNCHANGED runVars
  /\ UNCHANGED extraVars

ParseNext == ParseStep

ParseSpec == ParseInit /\ [][ParseNext]_vars

\* the seconds a stored timestamp has to denote for a reply's t
CorrectedSeconds(t, start) ==
  IF start > 0 /\ IsNum(t) /\ t < start THEN t + start ELSE t

\* the reply's arguments, when it is the call of submit_video_analysis
ParsedArgs == FunctionCallPart(response)[1].args

\* C7: for every issue and every retention point of a parsed reply, with t
\* the parsed seconds of its raw timestamp, the stored timestamp denotes
\* t + segmentStart when segmentStart > 0 and t < segmentStart, and t
\* otherwise.
C7_TimestampCorrection ==
  (pc = "parsed" /\ parsed.ok) =>
    /\ Len(parsed.value.issues) = Len(ParsedArgs.issues)
    /\ \A k \in 1..Len(ParsedArgs.issues) :
         parseTimestampToSeconds(parsed.value.issues[k].timestamp)
           = CorrectedSeconds(parseTimestampToSeconds(ParsedArgs.issues[k].timestamp),
                              segmentStart)
    /\ Len(parsed.value.marketing.retentionCurve) = Len(ParsedArgs.marketing.retentionCurve)
    /\ \A k \in 1..Len(ParsedArgs.marketing.retentionCurve) :
         parseTimestampToSeconds(parsed.value.marketing.retentionCurve[k].time)
           = CorrectedSeconds(
               parseTimestampToSeconds(ParsedArgs.marketing.retentionCurve[k].time),
               segmentStart)

\* window start 1200: raw 00:30 is stored as 20:30 and raw 25:00 as 25:00,
\* and the point at 00:10 as 20:10
C7_Witness ==
  /\ pc = "parsed" /\ parsed.ok /\ segmentStart = 1200
  /\ Len(ParsedArgs.issues) = 2
  /\ ParsedArgs.issues[1].timestamp = Txt_00_30
  /\ ParsedArgs.issues[2].timestamp = Txt_25_00
  /\ parsed.value.issues[1].timestamp = Txt_20_30
  /\ parsed.value.issues[2].timestamp = Txt_25_00
  /\ Len(ParsedArgs.marketing.retentionCurve) = 1
  /\ ParsedArgs.marketing.retentionCurve[1].time = Txt_00_10
  /\ parsed.value.marketing.retentionCurve[1].time = <<"2", "0", ":", "1", "0">>

\* ===================================================== mergeAnalysisResults
\* mergeAnalysisResults on its own: the segment results of the first windows
\* of a run, each parsed from a reply, are merged.  Two of the issues differ
\* in everything but timestamp and description; the third has a shorter
\* timestamp and a description that begins like the rest of the longer one.
MergeIssuePool ==
  {Issue(Txt_01_00_05, Txt_x, "clarity", "major", "found-1"),
   Issue(Txt_01_00_05, Txt_x, "factual", "critical", "found-2"),
   Issue(Txt_01_00, Txt_05x, "spelling", "minor", "found-3")}

MergeReplies ==
  {CallResponse("submit_video_analysis", Args(80, l, RunMarketing)) :
     l \in ListsOf(MergeIssuePool)}

\* the segment result of window k for a reply
SegmentResult(reply, k) ==
  parseResponse(reply, "title", "platform",
                StartTime(k, CHUNK_SIZE_MINUTES * 60),
                StartTime(k + 1, CHUNK_SIZE_MINUTES * 60)).value

MergeInit ==
  /\ pc = "merging"
  /\ \E n \in 1..MaxResults :
       \E rs \in [1..n -> MergeReplies] :
         results = [k \in 1..n |-> SegmentResult(rs[k], k - 1)]
  /\ durationStr = Txt_3700s
  /\ report = <<>>
  /\ apiKey = TRUE
  /\ durationSeconds = 0
  /\ chunkSeconds = CHUNK_SIZE_MINUTES * 60
  /\ totalChunks = 0
  /\ i = 0
  /\ log = <<>>
  /\ error = ""
  /\ replies = <<>>
  /\ plan = <<>>
  /\ response = NoCandidates
  /\ segmentStart = 0
  /\ parsed = Thrown("")
  /\ upload = NoUpload
  /\ codec = NoCodec
  /\ app = NoApp

MergeStep ==
  /\ pc = "merging"
  /\ \E merged \in mergeAnalysisResults(results, durationStr) : report' = <<merged>>
  /\ pc' = "merged"
  /\ UNCHANGED <<apiKey, durationStr, durationSeconds, chunkSeconds, totalChunks, i,
                 results, log, error, replies, plan>>
  /\ UNCHANGED parseVars
  /\ UNCHANGED extraVars

MergeNext == MergeStep

MergeSpec == MergeInit /\ [][MergeNext]_vars

SamePair(a, b) == a.timestamp = b.timestamp /\ a.description = b.description

\* the issues of the segment results, in window order
SegmentIssues == allIssues(results)
\* the places in SegmentIssues of the issues with the pair of x
PlacesOf(x) == {k \in 1..Len(SegmentIssues) : SamePair(SegmentIssues[k], x)}
Least(S) == CHOOSE k \in S : \A l \in S : k <= l
Greatest(S) == CHOOSE k \in S : \A l \in S : k >= l

MergedFromSeveral == pc = "merged" /\ Len(results) >= 2

\* C8: in a report merged from two or more segment results no two issues
\* have the same timestamp and description, issues are collapsed only when
\* both are equal (every pair of the segments is still in the report), and
\* the issues are in non-decreasing order of their parsed seconds.
C8_DedupByPairAndOrdered ==
  MergedFromSeveral =>
    /\ NoDuplicatePairs(report[1].issues)
    /\ \A k \in 1..Len(SegmentIssues) :
         \E j \in 1..Len(report[1].issues) :
           SamePair(report[1].issues[j], SegmentIssues[k])
    /\ TimeOrdered(report[1].issues)

\* C9: the issue kept for a (timestamp, description) pair is the first of
\* the segment issues with that pair, in window order.
C9_FirstOccurrenceKept ==
  MergedFromSeveral =>
    \A j \in 1..Len(report[1].issues) :
      report[1].issues[j] = SegmentIssues[Least(PlacesOf(report[1].issues[j]))]

\* C9 (amended): every issue of the merged report is the last of the segment
\* issues with its (timestamp, description) pair, in window order: type,
\* severity, found, shouldBe and impact are those of the latest such issue.
C9_LastOccurrenceKept ==
  MergedFromSeveral =>
    \A j \in 1..Len(report[1].issues) :
      /\ PlacesOf(report[1].issues[j]) # {}
      /\ report[1].issues[j]
           = SegmentIssues[Greatest(PlacesOf(report[1].issues[j]))]

\* two windows reported the same pair with different fields, and the report
\* holds the one issue of the second window
C9_Witness ==
  /\ MergedFromSeveral
  /\ Len(results[1].issues) = 1 /\ Len(results[2].issues) = 1
  /\ SamePair(results[1].issues[1], results[2].issues[1])
  /\ results[1].issues[1].found = "found-1"
  /\ results[2].issues[1].found = "found-2"
  /\ report[1].issues = <<results[2].issues[1]>>

\* ============================================ the merged scores and hook/CTA
\* mergeAnalysisResults over segment results that differ in their scores and
\* marketing blocks: a score can be absent, a text, or a number; a marketing
\* block can be absent, complete, or hold 0 and empty feedback.
FieldScores == {Undefined, NotNumeric, 0, 75, 100}

FieldMarketing ==
  {RunMarketing,
   Marketing(85, 0, "", 0, "", <<>>),
   NoMarketing,
   Marketing(NotNumeric, 3, "late hook", 9, "strong cta", <<>>)}

\* no issues, or three of them: out of time order, the first one twice
FieldIssues ==
  {<<>>,
   <<Issue(Txt_00_30, Txt_x, "spelling", "minor", "teh"),
     Issue(Txt_00_10, Txt_y, "factual", "major", "F=mv"),
     Issue(Txt_00_30, Txt_x, "spelling", "minor", "teh")>>}

FieldReplies ==
  {CallResponse("submit_video_analysis", Args(s, l, m)) :
     s \in FieldScores, l \in FieldIssues, m \in FieldMarketing}

\* what every specification of the merger starts from, besides the results
MergeDefaults ==
  /\ pc = "merging"
  /\ durationStr = Txt_3700s
  /\ report = <<>>
  /\ apiKey = TRUE
  /\ durationSeconds = 0
  /\ chunkSeconds = CHUNK_SIZE_MINUTES * 60
  /\ totalChunks = 0
  /\ i = 0
  /\ log = <<>>
  /\ error = ""
  /\ replies = <<>>
  /\ plan = <<>>
  /\ response = NoCandidates
  /\ segmentStart = 0
  /\ parsed = Thrown("")
  /\ upload = NoUpload
  /\ codec = NoCodec
  /\ app = NoApp

FieldsInit ==
  /\ \E n \in 1..MaxResults :
       \E rs \in [1..n -> FieldReplies] :
         results = [k \in 1..n |-> SegmentResult(rs[k], k - 1)]
  /\ MergeDefaults

FieldsSpec == FieldsInit /\ [][MergeNext]_vars

RECURSIVE SumOver(_, _)
SumOver(S, values) ==
  IF S = {} THEN 0
  ELSE LET k == CHOOSE k \in S : TRUE IN values[k] + SumOver(S \ {k}, values)

\* r is the mean of the numbers among values, rounded to the nearest integer
\* (a half rounds up); with no number among them r is NaN
IsRoundedMeanOfNumbers(r, values) ==
  LET S == {k \in 1..Len(values) : values[k] \notin {Undefined, NotNumeric}}
      n == Cardinality(S)
      sum == SumOver(S, values)
  IN  IF n = 0 THEN r = NaN
      ELSE r # NaN /\ 2 * r * n <= 2 * sum + n /\ 2 * sum + n < 2 * r * n + 2 * n

\* C11: the score of a report merged from several segment results is the
\* mean, rounded to the nearest integer, of exactly the segment scores that
\* are present and numeric, and marketing.overallScore is the same of the
\* segments' marketing.overallScore values, each on its own.
C11_RoundedMeanOfValid ==
  MergedFromSeveral =>
    /\ IsRoundedMeanOfNumbers(report[1].score,
                              [k \in 1..Len(results) |-> results[k].score])
    /\ IsRoundedMeanOfNumbers(report[1].marketing.overallScore,
                              [k \in 1..Len(results) |-> results[k].marketing.overallScore])

\* 75 and 100 give 88, while of the overall scores only the 70 counts
C11_Witness ==
  /\ MergedFromSeveral
  /\ results[1].score = 75 /\ results[2].score = 100
  /\ results[1].marketing.overallScore = 70
  /\ results[2].marketing.overallScore = NotNumeric
  /\ report[1].score = 88
  /\ report[1].marketing.overallScore = 70

FirstResult == results[1]
LastResult == results[Len(results)]

\* C12: in a report merged from several segment results hookScore and
\* hookFeedback are those of the first result and ctaScore and ctaFeedback
\* those of the last; a value that is absent gives 0 for a score and the
\* literal 'No hook data found' / 'No CTA data found' for a feedback.
C12_FirstLastOrAbsent ==
  MergedFromSeveral =>
    LET m == report[1].marketing
        f == FirstResult.marketing
        l == LastResult.marketing
    IN  /\ m.hookScore = IF f.hookScore = Undefined THEN 0 ELSE f.hookScore
        /\ m.hookFeedback = IF f.hookFeedback = "undefined" THEN "No hook data found"
                            ELSE f.hookFeedback
        /\ m.ctaScore = IF l.ctaScore = Undefined THEN 0 ELSE l.ctaScore
        /\ m.ctaFeedback = IF l.ctaFeedback = "undefined" THEN "No CTA data found"
                           ELSE l.ctaFeedback

\* C12 (amended): the same, with the fallback given for every value that is
\* absent or empty: a score that is absent or 0 gives 0, a feedback that is
\* absent or the empty text gives the literal.
C12_FirstLastOrFalsy ==
  MergedFromSeveral =>
    LET m == report[1].marketing
        f == FirstResult.marketing
        l == LastResult.marketing
    IN  /\ m.hookScore = IF f.hookScore \in {Undefined, 0} THEN 0 ELSE f.hookScore
        /\ m.hookFeedback = IF f.hookFeedback \in {"undefined", ""} THEN "No hook data found"
                            ELSE f.hookFeedback
        /\ m.ctaScore = IF l.ctaScore \in {Undefined, 0} THEN 0 ELSE l.ctaScore
        /\ m.ctaFeedback = IF l.ctaFeedback \in {"undefined", ""} THEN "No CTA data found"
                           ELSE l.ctaFeedback

\* the first result has an empty hook feedback and the last a CTA feedback:
\* the report has the literal for the hook and the last result's CTA
C12_Witness ==
  /\ MergedFromSeveral
  /\ FirstResult.marketing.hookFeedback = ""
  /\ FirstResult.marketing.ctaFeedback = ""
  /\ LastResult.marketing.hookFeedback = "late hook"
  /\ LastResult.marketing.ctaFeedback = "strong cta"
  /\ report[1].marketing.hookScore = 0
  /\ report[1].marketing.hookFeedback = "No hook data found"
  /\ report[1].marketing.ctaScore = 9
  /\ report[1].marketing.ctaFeedback = "strong cta"

\* ======================================================= the retention curve
\* mergeAnalysisResults over the segment results of windows 0 and 1 whose
\* replies differ in their retention curves.  A long curve has a point every
\* minute from the start of its window on, all of one value: 50 in the reply
\* for window 0 and 40 in that for window 1, so that the 21st and 22nd point
\* of window 0 meet the first two of window 1.
\* A short curve is a list of two points, one of them with a time that is
\* not a timestamp.
Ramp(from, n, value) ==
  [j \in 1..n |-> Point(formatSecondsToTimestamp(from + (j - 1) * 60), value)]

OddPoints == {Point(Txt_00_30, 50), Point(Txt_a_b, 60)}

CurvePairs ==
  {<<Ramp(0, a, 50), Ramp(CHUNK_SIZE_MINUTES * 60, b, 40)>> : a, b \in 0..MaxCurve}
  \cup (ListsOf(OddPoints) \X ListsOf(OddPoints))

CurveReply(curve) ==
  CallResponse("submit_video_analysis",
               Args(80, <<>>, [RunMarketing EXCEPT !.retentionCurve = curve]))

CurveInit ==
  /\ \E cs \in CurvePairs :
       results = [k \in 1..2 |-> SegmentResult(CurveReply(cs[k]), k - 1)]
  /\ MergeDefaults

CurveSpec == CurveInit /\ [][MergeNext]_vars

\* the points of the segment results, in window order
SegmentPoints == allPoints(results)
MergedCurve == report[1].marketing.retentionCurve
PointSeconds(p) == parseTimestampToSeconds(p.time)
SameTimeAs(p) == {k \in 1..Len(SegmentPoints) : SegmentPoints[k].time = p.time}

\* C14: the retention curve of a merged report is strictly increasing in
\* the parsed seconds of its points, and the point kept for a timestamp is
\* the first of the segment points with that timestamp, in window order.
C14_CurveIncreasingFirstKept ==
  MergedFromSeveral =>
    /\ \A j \in 1..(Len(MergedCurve) - 1) :
         JsLt(PointSeconds(MergedCurve[j]), PointSeconds(MergedCurve[j + 1]))
    /\ \A j \in 1..Len(MergedCurve) :
         /\ SameTimeAs(MergedCurve[j]) # {}
         /\ MergedCurve[j] = SegmentPoints[Least(SameTimeAs(MergedCurve[j]))]

\* the curves that the sorted and deduplicated points can form
DedupedCurves == {uniquePointsOf(c) : c \in sortedPoints(SegmentPoints)}

\* C15: with n the number of points of the deduplicated curve, the merged
\* curve is that curve when n <= 20; when n > 20 it is exactly the points at
\* positions 0, k, 2k, ... with k = ceil(n / 20), in their order.  Either way
\* it has at most 20 points and, unless empty, begins with the first point.
C15_Downsampled ==
  MergedFromSeveral =>
    \E D \in DedupedCurves :
      LET n == Len(D)
          k == (n + 19) \div 20
          R == MergedCurve
      IN  /\ Len(R) <= 20
          /\ n > 0 => (Len(R) > 0 /\ R[1] = D[1])
          /\ n <= 20 => R = D
          /\ n > 20 =>
               /\ Len(R) = Cardinality({p \in 0..(n - 1) : p % k = 0})
               /\ \A j \in 1..Len(R) : R[j] = D[(j - 1) * k + 1]

\* 22 points a window, 42 after the two shared times: every third is kept,
\* 14 points, the second of them at 03:00
C15_Witness ==
  /\ MergedFromSeveral
  /\ Len(results[1].marketing.retentionCurve) = 22
  /\ Len(results[2].marketing.retentionCurve) = 22
  /\ Len(MergedCurve) = 14
  /\ MergedCurve[1].time = <<"0", "0", ":", "0", "0">>
  /\ MergedCurve[2].time = <<"0", "3", ":", "0", "0">>
  /\ MergedCurve[14].time = <<"3", "9", ":", "0", "0">>
  /\ MergedCurve[14].value = 40

MergedFromOne == pc = "merged" /\ Len(results) = 1

\* C16: the report merged from exactly one segment result has that result's
\* title, platform, score, issues (the same elements in the same order),
\* marketing block and platformFit, unchanged, and the duration it was given
\* as its only other field.
C16_SingleResultUnchanged ==
  MergedFromOne =>
    /\ DOMAIN report[1] = DOMAIN results[1] \cup {"duration"}
    /\ \A f \in DOMAIN results[1] : report[1][f] = results[1][f]
    /\ report[1].duration = durationStr

\* the one result has no numeric score, three issues out of order and an
\* empty hook feedback, and the report has them as they are
C16_Witness ==
  /\ MergedFromOne
  /\ results[1].score = Undefined
  /\ Len(results[1].issues) = 3
  /\ ~TimeOrdered(results[1].issues)
  /\ results[1].marketing.hookFeedback = ""
  /\ report[1].score = Undefined
  /\ report[1].issues = results[1].issues
  /\ report[1].marketing.hookFeedback = ""
  /\ report[1].duration = Txt_3700s

\* ======================================================== the timestamp codec
\* formatSecondsToTimestamp and parseTimestampToSeconds on their own: a
\* number of seconds is formatted and the text parsed back, or a text that
\* is not a timestamp is parsed.
Txt_1_2_3_4 == <<"1", ":", "2", ":", "3", ":", "4">>
Txt_12_xx == <<"1", "2", ":", "x", "x">>
Txt_xs == <<"x", "s">>

MalformedTexts == {<<>>, Txt_abc, Txt_a_b, Txt_1_2_3_4, Txt_12_xx, Txt_xs}

CodecInit ==
  /\ \/ \E s \in 0..MaxSeconds : codec = [NoCodec EXCEPT !.pc = "format", !.given = "seconds",
                                                          !.seconds = s]
     \/ \E t \in MalformedTexts : codec = [NoCodec EXCEPT !.pc = "parse", !.given = "text",
                                                           !.text = t]
  /\ pc = "codec"
  /\ apiKey = TRUE
  /\ durationStr = <<>>
  /\ durationSeconds = 0
  /\ chunkSeconds = CHUNK_SIZE_MINUTES * 60
  /\ totalChunks = 0
  /\ i = 0
  /\ results = <<>>
  /\ log = <<>>
  /\ report = <<>>
  /\ error = ""
  /\ replies = <<>>
  /\ plan = <<>>
  /\ response = NoCandidates
  /\ segmentStart = 0
  /\ parsed = Thrown("")
  /\ upload = NoUpload
  /\ app = NoApp

CodecFormat ==
  /\ codec.pc = "format"
  /\ codec' = [codec EXCEPT !.text = formatSecondsToTimestamp(codec.seconds), !.pc = "parse"]
  /\ UNCHANGED <<pc, plan, upload, app>>
  /\ UNCHANGED runVars
  /\ UNCHANGED parseVars

CodecParse ==
  /\ codec.pc = "parse"
  /\ codec' = [codec EXCEPT !.value = parseTimestampToSeconds(codec.text), !.pc = "done"]
  /\ UNCHANGED <<pc, plan, upload, app>>
  /\ UNCHANGED runVars
  /\ UNCHANGED parseVars

CodecNext == CodecFormat \/ CodecParse

CodecSpec == CodecInit /\ [][CodecNext]_vars

TwoDigits(n) == <<DigitChars[(n \div 10) + 1], DigitChars[(n % 10) + 1]>>

\* C17: for every whole number of seconds from 0 to 86399 the text of
\* formatSecondsToTimestamp is MM:SS below 3600 and HH:MM:SS from 3600 on,
\* every component written with two digits, and parseTimestampToSeconds of
\* that text is the number again.
C17_RoundTrip ==
  (codec.given = "seconds" /\ codec.seconds < 86400) =>
    LET s == codec.seconds
        hh == TwoDigits(s \div 3600)
        mm == TwoDigits((s % 3600) \div 60)
        ss == TwoDigits(s % 60)
    IN  /\ codec.pc \in {"parse", "done"} =>
             codec.text = IF s < 3600 THEN mm \o <<":">> \o ss
                          ELSE hh \o <<":">> \o mm \o <<":">> \o ss
        /\ codec.pc = "done" => codec.value = s

\* 3599 is written 59:59 and 3600 is written 01:00:00; here the latter
C17_Witness ==
  /\ codec.pc = "done"
  /\ codec.seconds = 3600
  /\ codec.text = <<"0", "1", ":", "0", "0", ":", "0", "0">>
  /\ codec.value = 3600

\* C18: parseTimestampToSeconds gives 0 for every text that is not a
\* timestamp: the empty text, parts that are not numbers, a number of parts
\* other than two or three.
C18_MalformedIsZero ==
  (codec.given = "text" /\ codec.pc = "done") => codec.value = 0

\* ======================================================== uploadFileToGemini
\* One call of uploadFileToGemini, a step for each await: the call up to
\* files.upload, the upload's outcome up to the first files.get, the
\* outcome of a files.get, and the end of the 5-second timer.  The second
\* argument is a function, is absent, or is some text (which is truthy and
\* cannot be called).
POLL_INTERVAL_MS == 5000

Callbacks == {"function", "none", "text"}

UploadEvent(kind, what, state, ms) == [kind |-> kind, what |-> what, state |-> state, ms |-> ms]
UploadCall(what) == UploadEvent("call", what, "", 0)
Polled(state) == UploadEvent("poll", "files.get", state, 0)
Waited == UploadEvent("wait", "setTimeout", "", POLL_INTERVAL_MS)

\* if (onStatusUpdate) onStatusUpdate(status): what is logged, and whether
\* the call throws
StatusUpdate(callback, what, state) ==
  [events |-> IF callback = "function" THEN <<UploadEvent("status", what, state, 0)>> ELSE <<>>,
   throws |-> callback = "text"]

\* the catch block: throw new Error(`Upload failed: ${error.message}`)
UploadFailed(u, events, message) ==
  [u EXCEPT !.pc = "failed", !.log = u.log \o events,
            !.error = "Upload failed: " \o message]

\* what files.upload can come to: it rejects, or it resolves with a file
\* that has a URI or has none
UploadOutcomes ==
  {[rejected |-> TRUE, uri |-> ""], [rejected |-> FALSE, uri |-> ""],
   [rejected |-> FALSE, uri |-> "files/abc"]}

\* what files.get can come to: it rejects, or it resolves with a file state;
\* an ACTIVE file has a video duration or none
PollOutcomes ==
  {[rejected |-> TRUE, state |-> "", duration |-> <<>>]}
  \cup {[rejected |-> FALSE, state |-> st, duration |-> <<>>] :
          st \in {"ACTIVE", "FAILED", "PROCESSING", "undefined"}}
  \cup {[rejected |-> FALSE, state |-> "ACTIVE", duration |-> Txt_2400s]}

UploadInit ==
  /\ \E cb \in Callbacks : upload = [NoUpload EXCEPT !.callback = cb]
  /\ apiKey \in BOOLEAN
  /\ pc = "upload"
  /\ durationStr = <<>>
  /\ durationSeconds = 0
  /\ chunkSeconds = CHUNK_SIZE_MINUTES * 60
  /\ totalChunks = 0
  /\ i = 0
  /\ results = <<>>
  /\ log = <<>>
  /\ report = <<>>
  /\ error = ""
  /\ replies = <<>>
  /\ plan = <<>>
  /\ response = NoCandidates
  /\ segmentStart = 0
  /\ parsed = Thrown("")
  /\ codec = NoCodec
  /\ app = NoApp

\* uploadFileToGemini up to its first await: the key check, the first status
\* update, the files.upload call
UploadStarted(u, key) ==
  LET status == StatusUpdate(u.callback, "Uploading to Gemini...", "")
  IN  IF ~key THEN [u EXCEPT !.pc = "failed", !.error = "API Key missing"]
      ELSE IF status.throws
        THEN UploadFailed(u, <<>>, "onStatusUpdate is not a function")
      ELSE [u EXCEPT !.pc = "uploading",
                     !.log = status.events \o <<UploadCall("files.upload")>>]

\* the code run when files.upload has settled, up to the first files.get
UploadResolved(u, outcome) ==
  LET status == StatusUpdate(u.callback, "Google is processing video...", "")
  IN  IF outcome.rejected THEN UploadFailed(u, <<>>, "files.upload failed")
      ELSE IF outcome.uri = ""
        THEN UploadFailed(u, <<>>,
               "Upload failed: Response missing file URI. The API might have changed.")
      ELSE [u EXCEPT !.pc = "polling",
                     !.log = u.log \o status.events \o <<UploadCall("files.get")>>]

\* the branch of the loop body taken on a file state that leaves the loop by
\* return unless the state is FAILED
AfterPoll_ReturnUnlessFailed(state) ==
  IF state = "FAILED" THEN "throw" ELSE "return"

\* the branch of the loop body taken on a file state
AfterPoll(state) ==
  IF state = "ACTIVE" THEN "return"
  ELSE IF state = "FAILED" THEN "throw"
  ELSE "wait"

\* the poll that has settled starts another wait
PollWaits(outcome) == ~outcome.rejected /\ AfterPoll(outcome.state) = "wait"

\* the code run when files.get has settled: the return, the throw, or the
\* status update and the timer
PollResolved(u, outcome) ==
  LET seen == <<Polled(outcome.state)>>
      branch == AfterPoll(outcome.state)
      status == StatusUpdate(u.callback, "Google is processing video... (state)",
                             outcome.state)
  IN  IF outcome.rejected THEN UploadFailed(u, <<>>, "files.get failed")
      ELSE IF branch = "return"
        THEN [u EXCEPT !.pc = "returned", !.log = u.log \o seen,
                       !.result = <<[uri |-> "files/abc", duration |-> outcome.duration]>>]
      ELSE IF branch = "throw"
        THEN UploadFailed(u, seen, "Video processing failed on Google servers.")
      ELSE [u EXCEPT !.pc = "waiting", !.polls = u.polls + 1,
                     !.log = u.log \o seen \o status.events \o <<Waited>>]

\* the code run when the timer of 5 seconds has ended: the loop asks again
TimerEnded(u) ==
  [u EXCEPT !.pc = "polling", !.clock = u.clock + POLL_INTERVAL_MS,
            !.log = u.log \o <<UploadCall("files.get")>>]

\* the call up to its first await
UploadStart ==
  /\ upload.pc = "idle"
  /\ upload' = UploadStarted(upload, apiKey)
  /\ UNCHANGED <<pc, plan, codec, app>>
  /\ UNCHANGED runVars
  /\ UNCHANGED parseVars

\* files.upload settles
UploadResolve(outcome) ==
  /\ upload.pc = "uploading"
  /\ upload' = UploadResolved(upload, outcome)
  /\ UNCHANGED <<pc, plan, codec, app>>
  /\ UNCHANGED runVars
  /\ UNCHANGED parseVars

\* files.get settles
PollResolve(outcome) ==
  /\ upload.pc = "polling"
  /\ PollWaits(outcome) => upload.polls < MaxPolls
  /\ upload' = PollResolved(upload, outcome)
  /\ UNCHANGED <<pc, plan, codec, app>>
  /\ UNCHANGED runVars
  /\ UNCHANGED parseVars

\* the timer of 5 seconds ends
TimerEnds ==
  /\ upload.pc = "waiting"
  /\ upload' = TimerEnded(upload)
  /\ UNCHANGED <<pc, plan, codec, app>>
  /\ UNCHANGED runVars
  /\ UNCHANGED parseVars

UploadNext ==
  \/ UploadStart
  \/ \E outcome \in UploadOutcomes : UploadResolve(outcome)
  \/ \E outcome \in PollOutcomes : PollResolve(outcome)
  \/ TimerEnds

UploadSpec == UploadInit /\ [][UploadNext]_vars

PollPositions == {p \in 1..Len(upload.log) : upload.log[p].kind = "poll"}
\* the first event after position p that is not a status update, 0 if none
NextStepAfter(p) ==
  LET later == {q \in (p + 1)..Len(upload.log) : upload.log[q].kind # "status"}
  IN  IF later = {} THEN 0 ELSE Least(later)
UploadErrors ==
  {"API Key missing",
   "Upload failed: onStatusUpdate is not a function",
   "Upload failed: files.upload failed",
   "Upload failed: Upload failed: Response missing file URI. The API might have changed.",
   "Upload failed: files.get failed",
   "Upload failed: Video processing failed on Google servers."}

\* C20: uploadFileToGemini returns the URI and the duration only when its
\* latest poll saw the state ACTIVE; a poll that saw FAILED ends the call
\* with a failure and no result; after a poll that saw any other state the
\* call waits 5 seconds and then polls again, however many polls there were:
\* the call ends only by ACTIVE, by FAILED or by a failed request.
C20_PollUntilActive ==
  LET ul == upload.log
  IN  /\ (upload.pc = "returned") <=> (upload.result # <<>>)
      /\ upload.pc = "returned" =>
           /\ ul[Len(ul)] = Polled("ACTIVE")
           /\ upload.result[1].uri = "files/abc" /\ upload.error = ""
      /\ upload.pc = "failed" => upload.error \in UploadErrors
      /\ upload.clock + (IF upload.pc = "waiting" THEN POLL_INTERVAL_MS ELSE 0)
           = POLL_INTERVAL_MS * Cardinality({p \in PollPositions :
                                              ul[p].state \notin {"ACTIVE", "FAILED"}})
      /\ \A p \in PollPositions :
           IF ul[p].state = "ACTIVE" THEN p = Len(ul) /\ upload.pc = "returned"
           ELSE IF ul[p].state = "FAILED"
             THEN /\ p = Len(ul) /\ upload.pc = "failed" /\ upload.result = <<>>
                  /\ upload.error = "Upload failed: Video processing failed on Google servers."
           ELSE LET q == NextStepAfter(p)
                IN  /\ q # 0 /\ ul[q] = Waited
                    /\ upload.callback = "function" =>
                         /\ q = p + 2 /\ ul[p + 1].kind = "status"
                         /\ ul[p + 1].state = ul[p].state
                    /\ IF q = Len(ul) THEN upload.pc = "waiting"
                       ELSE ul[q + 1] = UploadCall("files.get")

\* the file was PROCESSING or without a state at every poll up to the last,
\* which saw ACTIVE: the call returns the URI and the duration after as many
\* waits of 5 seconds
C20_Witness ==
  /\ upload.pc = "returned"
  /\ upload.polls = MaxPolls
  /\ upload.clock = MaxPolls * POLL_INTERVAL_MS
  /\ Cardinality(PollPositions) = MaxPolls + 1
  /\ \E p \in PollPositions : upload.log[p].state = "PROCESSING"
  /\ \E p \in PollPositions : upload.log[p].state = "undefined"
  /\ upload.result = <<[uri |-> "files/abc", duration |-> Txt_2400s]>>

\* --------------------------------------------------------------------------
\* The prompts and the number of generateContent calls of a run (Spec)
\* --------------------------------------------------------------------------

\* C23: in a run with N windows the prompt of window 0, and no other, asks for
\* the hook analysis, and the prompt of window N-1, and no other, asks for the
\* CTA analysis; with N = 1 the single prompt asks for both.
C23_HookFirstCtaLast ==
  Planned =>
    /\ \A p \in Positions("request") :
         /\ log[p].i \in Windows
         /\ log[p].hook <=> (log[p].i = 0)
         /\ log[p].cta <=> (log[p].i = totalChunks - 1)
    /\ totalChunks = 1 =>
         \A p \in Positions("request") : log[p].hook /\ log[p].cta

\* a finished run of three windows: the hook asked of the first one only, the
\* CTA of the last one only
C23_Witness ==
  /\ pc = "done" /\ totalChunks = 3
  /\ \E p \in RequestsOf(0) : log[p].hook /\ ~log[p].cta
  /\ \E p \in RequestsOf(1) : ~log[p].hook /\ ~log[p].cta
  /\ \E p \in RequestsOf(2) : ~log[p].hook /\ log[p].cta

\* C24: generateContent is called once per window: no window is requested
\* twice, a window is requested before it settles and never after, and a run
\* that has ended has issued exactly totalChunks requests.
C24_OneRequestPerWindow ==
  Planned =>
    /\ \A p \in Positions("request") : log[p].i \in Windows
    /\ \A w \in Windows :
         /\ Cardinality(RequestsOf(w)) = (IF w <= i /\ w < totalChunks THEN 1 ELSE 0)
         /\ \A p \in RequestsOf(w), q \in ResolvedOf(w) : p < q
    /\ \A w \in FailedWindows : Cardinality(RequestsOf(w)) = 1
    /\ Ended => Cardinality(Positions("request")) = totalChunks

\* a finished run of three windows whose first two calls failed: three
\* requests in all
C24_Witness ==
  /\ pc = "done" /\ totalChunks = 3
  /\ FailedWindows = {0, 1}
  /\ Cardinality(Positions("request")) = 3

\* --------------------------------------------------------------------------
\* Termination of a run (FairSpec)
\* --------------------------------------------------------------------------

\* A step of the run seen on its control state alone.  Under [][Next]_vars a
\* step that is not a stuttering step is a Start or a Resolve step, it leaves
\* a state with pc "idle" or "awaiting", and it changes pc or i; Start and
\* Resolve are enabled in exactly those states (StepsAreRunSteps).
RunStep ==
  /\ pc \in {"idle", "awaiting"}
  /\ pc' \in {"awaiting", "done", "failed"}
  /\ i' \in {i, i + 1}
  /\ <<pc, i>>' # <<pc, i>>

StepsAreRunSteps == [][RunStep]_vars

\* The synchronous part of the call runs once the call is made, and every
\* pending generateContent call eventually returns or fails: a step of the run
\* is taken whenever one stays possible.
FairSpec ==
  /\ Init
  /\ [][Next]_vars
  /\ WF_<<pc, i>>(RunStep)

\* C25: provided every generateContent call eventually settles, every run
\* eventually ends, with a returned report or with a thrown error, for every
\* number of windows and every pattern of failed segments.
C25_RunTerminates == <>Ended

\* a run of three windows that ended with a report although two of its calls
\* failed
C25_Witness ==
  /\ pc = "done" /\ totalChunks = 3
  /\ Cardinality(FailedWindows) = 2
  /\ Len(report) = 1

\* --------------------------------------------------------------------------
\* The range of the merged scores (FieldsSpec)
\* --------------------------------------------------------------------------

\* a score a segment supplies is in 0..100, or the segment omits it
InRangeOrOmitted(v) == v = Undefined \/ v \in 0..100

\* C26: in a report merged from two or more segment results whose scores and
\* overall marketing scores are each in 0..100 or omitted, score and
\* marketing.overallScore are integers in 0..100, never NaN, also when every
\* segment omits them.
C26_MergedScoresInRange ==
  (/\ MergedFromSeveral
   /\ \A k \in 1..Len(results) :
        /\ InRangeOrOmitted(results[k].score)
        /\ InRangeOrOmitted(results[k].marketing.overallScore))
    => /\ report[1].score \in 0..100
       /\ report[1].marketing.overallScore \in 0..100

\* --------------------------------------------------------------------------
\* Corrected timestamps and the window of their segment (ParseSpec)
\* --------------------------------------------------------------------------

\* t seconds lie inside the window parseResponse was called for
InsideWindow(t) ==
  IsNum(t) /\ segmentStart <= t /\ t < segmentStart + chunkSeconds

\* C27: after correction every issue timestamp and every retention-point
\* time of a parsed segment lies inside the segment's window, at least
\* segmentStart and less than segmentEnd, whatever raw timestamp the reply
\* carried.
C27_CorrectedInsideWindow ==
  (pc = "parsed" /\ parsed.ok) =>
    /\ \A k \in 1..Len(parsed.value.issues) :
         InsideWindow(parseTimestampToSeconds(parsed.value.issues[k].timestamp))
    /\ \A k \in 1..Len(parsed.value.marketing.retentionCurve) :
         InsideWindow(parseTimestampToSeconds(parsed.value.marketing.retentionCurve[k].time))

\* ==========================================================================
\* The App component (AppSpec): login, upload, runs of handleStartAnalysis,
\* the dashboard
\* ==========================================================================
\* A run is one call of handleStartAnalysis.  It captures file, videoTitle and
\* apiKey of the render it was started from, and goes on after each await
\* whatever the component's state has become.  App.tsx calls
\* uploadFileToGemini(file, apiKey, callback) and runGeminiAnalysis(uri, title,
\* platform, duration, apiKey, channelUrl, callback), while the services
\* declare (file, onStatusUpdate?) and (fileUri, title, platform, durationStr,
\* onStatusUpdate?): as the sources stand the services receive the API key, a
\* text, as their status callback ("text").  The other value, "function", is
\* the services taking the arguments in the order App.tsx passes them.

MaxRuns == 2
MaxAppPolls == 1

Files == {"a.mp4", "b.mp4"}
\* what LoginPage can hand over, which checks both fields to be non-empty,
\* and what SettingsModal can, which checks nothing
LoginInputs == {<<"ann", "AIza-key">>}
SettingsInputs == {<<"ann", "AIza-key">>, <<"", "">>}

AppBindings == {"text", "function"}

\* what files.get comes to in the runs of the app: an ACTIVE file has the
\* duration of two windows
AppPollOutcomes ==
  {o \in PollOutcomes :
     \/ o.rejected
     \/ o.state \in {"FAILED", "PROCESSING"}
     \/ o.state = "ACTIVE" /\ o.duration = Txt_2400s}

\* what generateContent comes to in the runs of the app: it rejects, or it
\* replies with the function call and two issues
AppReplies ==
  {[rejected |-> TRUE, response |-> NoCandidates],
   [rejected |-> FALSE,
    response |-> CallResponse("submit_video_analysis",
                              Args(80, <<Issue(Txt_00_30, Txt_x, "spelling", "minor", "teh"),
                                         Issue(Txt_00_10, Txt_y, "factual", "major", "F=mv")>>,
                                   RunMarketing))]}

\* a call of handleStartAnalysis at its first await
NewRun(a, u) ==
  [file |-> a.file, title |-> a.videoTitle, key |-> a.apiKey, stage |-> "uploading",
   upload |-> u, duration |-> <<>>, seconds |-> 0, n |-> 0, i |-> 0, results |-> <<>>,
   requests |-> 0]

\* a catch clause that reports every failure by the same words
Caught_GenericMessage(a, r, message) ==
  [a EXCEPT !.error = "Analysis failed.",
            !.isAiProcessing = FALSE,
            !.runs[r].stage = "thrown"]

\* the catch clause of handleStartAnalysis, run r having thrown
Caught(a, r, message) ==
  [a EXCEPT !.error = IF message = "" THEN "Analysis failed." ELSE message,
            !.isAiProcessing = FALSE,
            !.runs[r].stage = "thrown"]

\* setResults(data); setStep('dashboard'), run r having returned
Installed(a, r, data) ==
  [a EXCEPT !.results = <<data>>, !.resultsFile = a.runs[r].file,
            !.step = "dashboard", !.runs[r].stage = "returned"]

\* the mount effect has restored a stored login, or there was none
AppInit ==
  /\ \E cb \in AppBindings :
       \/ app = [NoApp EXCEPT !.onStatusUpdate = cb]
       \/ \E stored \in LoginInputs :
            app = [NoApp EXCEPT !.onStatusUpdate = cb, !.userName = stored[1],
                                !.apiKey = stored[2], !.step = "upload"]
  /\ apiKey \in BOOLEAN
  /\ pc = "app"
  /\ durationStr = <<>>
  /\ durationSeconds = 0
  /\ chunkSeconds = CHUNK_SIZE_MINUTES * 60
  /\ totalChunks = 0
  /\ i = 0
  /\ results = <<>>
  /\ log = <<>>
  /\ report = <<>>
  /\ error = ""
  /\ replies = <<>>
  /\ plan = <<>>
  /\ response = NoCandidates
  /\ segmentStart = 0
  /\ parsed = Thrown("")
  /\ upload = NoUpload
  /\ codec = NoCodec

AppFrame ==
  /\ UNCHANGED <<pc, plan, upload, codec>>
  /\ UNCHANGED runVars
  /\ UNCHANGED parseVars

\* LoginPage submits a name and a key, both checked to be non-empty
handleLogin(name, key) ==
  /\ app.step = "login"
  /\ app' = [app EXCEPT !.userName = name, !.apiKey = key, !.step = "upload"]
  /\ AppFrame

\* SettingsModal saves the two fields as they are
handleAuthUpdate(name, key) ==
  /\ app.step # "login"
  /\ app' = [app EXCEPT !.userName = name, !.apiKey = key]
  /\ AppFrame

handleLogout ==
  /\ app.step # "login"
  /\ app' = [app EXCEPT !.userName = "", !.apiKey = "", !.results = <<>>,
                        !.resultsFile = "", !.file = "", !.step = "login"]
  /\ AppFrame

\* UploadStep hands over a file; no title is given, so the file's name is
\* the title
handleUpload(uploadedFile) ==
  /\ app.step = "upload"
  /\ app' = [app EXCEPT !.file = uploadedFile, !.videoTitle = uploadedFile,
                        !.error = "", !.isAiProcessing = FALSE,
                        !.processedVideo = TRUE, !.step = "analyzing"]
  /\ AppFrame

\* the Start button of AnalysisProgress, shown while isAiProcessing is false:
\* the handler up to the first await of uploadFileToGemini, and its catch
\* clause when the call throws before any await
handleStartAnalysis ==
  /\ app.step = "analyzing" /\ app.file # ""
  /\ ~app.isAiProcessing /\ app.processedVideo
  /\ Len(app.runs) < MaxRuns
  /\ IF app.apiKey = "" THEN UNCHANGED app
     ELSE LET u == UploadStarted([NoUpload EXCEPT !.callback = app.onStatusUpdate], apiKey)
              r == Len(app.runs) + 1
              started == [app EXCEPT !.isAiProcessing = TRUE,
                                     !.runs = Append(app.runs, NewRun(app, u))]
          IN  app' = IF u.pc = "failed" THEN Caught(started, r, u.error) ELSE started
  /\ AppFrame

\* files.upload of run r settles
RunUploadSettles(r, outcome) ==
  /\ app.runs[r].stage = "uploading" /\ app.runs[r].upload.pc = "uploading"
  /\ LET u == UploadResolved(app.runs[r].upload, outcome)
         a == [app EXCEPT !.runs[r].upload = u]
     IN  app' = IF u.pc = "failed" THEN Caught(a, r, u.error) ELSE a
  /\ AppFrame

\* files.get of run r settles; on ACTIVE the handler goes on into
\* runGeminiAnalysis, up to the generateContent call of window 0
RunPollSettles(r, outcome) ==
  /\ app.runs[r].stage = "uploading" /\ app.runs[r].upload.pc = "polling"
  /\ PollWaits(outcome) => app.runs[r].upload.polls < MaxAppPolls
  /\ LET u == PollResolved(app.runs[r].upload, outcome)
         a == [app EXCEPT !.runs[r].upload = u]
         d == parseDurationSeconds(u.result[1].duration)
     IN  app' = IF u.pc = "failed" THEN Caught(a, r, u.error)
                ELSE IF u.pc = "returned"
                  THEN [a EXCEPT !.runs[r].stage = "analysing",
                                 !.runs[r].duration = u.result[1].duration,
                                 !.runs[r].seconds = d,
                                 !.runs[r].n = TotalChunks(d, chunkSeconds),
                                 !.runs[r].requests = 1]
                ELSE a
  /\ AppFrame

\* the timer of run r ends
RunTimerEnds(r) ==
  /\ app.runs[r].stage = "uploading" /\ app.runs[r].upload.pc = "waiting"
  /\ app' = [app EXCEPT !.runs[r].upload = TimerEnded(app.runs[r].upload)]
  /\ AppFrame

\* the pending generateContent call of run r settles: the next window is
\* requested, or runGeminiAnalysis returns the report, which the handler
\* installs, or it throws, which the handler catches
RunAnalysisSettles(r, outcome) ==
  /\ app.runs[r].stage = "analysing"
  /\ LET run == app.runs[r]
         got == IF outcome.rejected THEN Thrown("generateContent failed")
                ELSE parseResponse(outcome.response, run.title, "platform",
                                   StartTime(run.i, chunkSeconds),
                                   EndTime(run.i, chunkSeconds, run.seconds))
         results1 == IF got.ok THEN Append(run.results, got.value) ELSE run.results
         a == [app EXCEPT !.runs[r].results = results1, !.runs[r].i = run.i + 1]
     IN  IF ContinueAfter(run.i, run.n, got.ok)
           THEN app' = [a EXCEPT !.runs[r].requests = run.requests + 1]
           ELSE LET end == AfterLoop(results1, run.duration)
                IN  IF end.pc = "done"
                      THEN \E data \in end.reports : app' = Installed(a, r, data[1])
                      ELSE app' = Caught(a, r, end.error)
  /\ AppFrame

\* issue.id as the IssueCard hands it to onFix: the function declaration has
\* no id among the properties of an issue, and parseResponse adds none
IssueId(issue) == IF "id" \in DOMAIN issue THEN issue.id ELSE "undefined"

\* issue.fixed as the IssueCard reads it
IsFixed(issue) == "fixed" \in DOMAIN issue /\ issue.fixed

\* { ...i, fixed: true }
MarkedFixed(issue) ==
  [f \in DOMAIN issue \cup {"fixed"} |-> IF f = "fixed" THEN TRUE ELSE issue[f]]

\* the fix applied to the issue clicked and to no other one
FixedIssues_ByPlace(issues, k) ==
  [j \in 1..Len(issues) |-> IF j = k THEN MarkedFixed(issues[j]) ELSE issues[j]]

\* results.issues.map(i => i.id === id ? { ...i, fixed: true } : i), id being
\* the id of the issue clicked, the one at place k
FixedIssues(issues, k) ==
  [j \in 1..Len(issues) |->
     IF IssueId(issues[j]) = IssueId(issues[k]) THEN MarkedFixed(issues[j]) ELSE issues[j]]

\* the button "Mark as Fixed" of the IssueCard of issue k, enabled while the
\* issue is not fixed
handleIssueFix(k) ==
  /\ app.step = "dashboard" /\ app.results # <<>>
  /\ k \in 1..Len(app.results[1].issues)
  /\ ~IsFixed(app.results[1].issues[k])
  /\ app' = [app EXCEPT !.results[1].issues = FixedIssues(app.results[1].issues, k)]
  /\ AppFrame

handleReAnalyze ==
  /\ app.step = "dashboard" /\ app.results # <<>>
  /\ app' = [app EXCEPT !.results = <<>>, !.resultsFile = "", !.file = "",
                        !.processedVideo = FALSE, !.step = "upload"]
  /\ AppFrame

AppNext ==
  \/ \E given \in LoginInputs : handleLogin(given[1], given[2])
  \/ \E given \in SettingsInputs : handleAuthUpdate(given[1], given[2])
  \/ handleLogout
  \/ \E f \in Files : handleUpload(f)
  \/ handleStartAnalysis
  \/ \E r \in 1..Len(app.runs), outcome \in UploadOutcomes : RunUploadSettles(r, outcome)
  \/ \E r \in 1..Len(app.runs), outcome \in AppPollOutcomes : RunPollSettles(r, outcome)
  \/ \E r \in 1..Len(app.runs) : RunTimerEnds(r)
  \/ \E r \in 1..Len(app.runs), outcome \in AppReplies : RunAnalysisSettles(r, outcome)
  \/ \E k \in 1..MaxIssues : handleIssueFix(k)
  \/ handleReAnalyze

AppSpec == AppInit /\ [][AppNext]_vars

\* One session of one user: no logout and no change of the settings.  A run
\* is started from the Start button only, which is shown again when the run
\* before it has failed or a new file has been handed over after a finished
\* run, so the runs of a session follow one another.
SessionNext ==
  \/ \E given \in LoginInputs : handleLogin(given[1], given[2])
  \/ \E f \in Files : handleUpload(f)
  \/ handleStartAnalysis
  \/ \E r \in 1..Len(app.runs), outcome \in UploadOutcomes : RunUploadSettles(r, outcome)
  \/ \E r \in 1..Len(app.runs), outcome \in AppPollOutcomes : RunPollSettles(r, outcome)
  \/ \E r \in 1..Len(app.runs) : RunTimerEnds(r)
  \/ \E r \in 1..Len(app.runs), outcome \in AppReplies : RunAnalysisSettles(r, outcome)
  \/ handleReAnalyze

SessionSpec == AppInit /\ [][SessionNext]_vars

\* --------------------------------------------------------------------------
\* Claims about the runs of the app (AppSpec)
\* --------------------------------------------------------------------------

Runs == 1..Len(app.runs)
UploadFailedIn(a, r) == r <= Len(a.runs) /\ a.runs[r].upload.pc = "failed"
InFlight(r) == app.runs[r].stage \in {"uploading", "analysing"}

\* C21: a failure of uploadFileToGemini (files.upload rejected, no URI in its
\* reply, the file state FAILED, or any other throw of the function) ends the
\* run: the run has issued no generateContent call and never issues one, and
\* the step in which the failure arrives sets the app's error to the
\* function's one error message and isAiProcessing to false, and leaves step
\* and results as they are.
C21_UploadFailureIsFatal ==
  [][\A r \in 1..Len(app'.runs) :
       UploadFailedIn(app', r) =>
         /\ app'.runs[r].stage = "thrown"
         /\ app'.runs[r].requests = 0
         /\ app'.runs[r].results = <<>>
         /\ app'.runs[r].upload.error # ""
         /\ ~UploadFailedIn(app, r) =>
              /\ app'.error = app'.runs[r].upload.error
              /\ ~app'.isAiProcessing
              /\ app'.step = app.step
              /\ app'.results = app.results]_vars

\* the file of a run went to FAILED on Google's side: the app shows that
\* error on the analyzing step, with the Start button back
C21_Witness ==
  \E r \in Runs :
    /\ app.runs[r].upload.error
         = "Upload failed: " \o "Video processing failed on Google servers."
    /\ app.runs[r].requests = 0
    /\ app.error = app.runs[r].upload.error
    /\ app.step = "analyzing" /\ ~app.isAiProcessing

\* the report a with the issues left out
WithoutIssues(data) == [f \in DOMAIN data \ {"issues"} |-> data[f]]

HasThrown(a, r) == r <= Len(a.runs) /\ a.runs[r].stage = "thrown"

====
